---------------------------- MODULE Spec2Model ----------------------------
(***************************************************************************)
(* Model of phono3py.cui.load: load() and _set_force_constants().          *)
(*                                                                         *)
(* One call of load() is modelled as a sequential process.  The arguments  *)
(* of the call (args) and the environment it runs in (env: the files of    *)
(* the current directory and the content of the phono3py.yaml-like file)   *)
(* are chosen in Init and never change.  Each action is one statement      *)
(* group of load(), in program order; pc is the position in the function.  *)
(*                                                                         *)
(* Values are abstract tokens: a file name, a cell, a matrix or a set of   *)
(* force constants is a string naming where it came from.  Python's None   *)
(* is the string "None"; an optional number is the empty set (None) or a   *)
(* singleton set {n}.                                                      *)
(***************************************************************************)
EXTENDS Naturals, Sequences, FiniteSets, TLC

VARIABLES
    args,       \* the keyword arguments of the call of load()
    env,        \* files in the current directory, content of the yaml file
    pc,         \* position in load()
    cell,       \* local: cell
    smat,       \* local: smat
    pmat,       \* local: pmat
    ph_smat,    \* local: ph_smat
    nac,        \* local: _nac_params
    units,      \* local: units
    factor_,    \* local: _factor
    ph3py,      \* the Phono3py object: constructor arguments, fc3, fc2, phph
    nac_call,   \* arguments load_helper.get_nac_params was called with
    calls,      \* external calls and attribute assignments, in order
    reads,      \* files whose content has been read
    err         \* exception that ended the call, or None

vars == <<args, env, pc, cell, smat, pmat, ph_smat, nac, units, factor_,
          ph3py, nac_call, calls, reads, err>>

None == "None"
NoNum == {}
Unset == "unset"

----------------------------------------------------------------------------
(* Bounds of the input space.                                              *)

\* factor is None or one of 0 .. MaxFactor
MaxFactor == 1
\* frequency_scale_factor is None or one of 0 .. MaxScale
MaxScale == 1

Opt(S) == {None} \cup S
OptNum(n) == {NoNum} \cup {{i} : i \in 0..n}

Calculators == {"qe"}


YamlName == "phono3py.yaml"
Eye3 == "eye(3)"

\* The keyword defaults of load(): everything None, is_nac True.
DefaultArgs ==
    [phono3py_yaml |-> None, supercell_matrix |-> None,
     primitive_matrix |-> None, phonon_supercell_matrix |-> None,
     mesh |-> None, is_nac |-> TRUE, calculator |-> None,
     unitcell |-> None, supercell |-> None, nac_params |-> None,
     unitcell_filename |-> None, supercell_filename |-> None,
     born_filename |-> None,
     forces_fc3_filename |-> None, forces_fc2_filename |-> None,
     fc3_filename |-> None, fc2_filename |-> None,
     factor |-> NoNum, frequency_scale_factor |-> NoNum]

\* What Phono3pyYaml.read finds in the yaml file.  The unit cell is always
\* there; the matrices and the NAC parameters are optional.
YamlContents ==
    [unitcell : {"yaml_unitcell"},
     supercell_matrix : Opt({"yaml_smat"}),
     phonon_supercell_matrix : Opt({"yaml_ph_smat"}),
     primitive_matrix : Opt({"yaml_pmat"}),
     nac_params : Opt({"yaml_nac_params"})]

\* The content when no yaml file is named (never looked at).
NoYaml ==
    [unitcell |-> None, supercell_matrix |-> None,
     phonon_supercell_matrix |-> None, primitive_matrix |-> None,
     nac_params |-> None]

YamlChoices == {<<None, NoYaml>>} \cup {<<YamlName, y>> : y \in YamlContents}

Fc3Files == {"fc3.hdf5", "FORCES_FC3", "disp_fc3.yaml"}
Fc2Files == {"fc2.hdf5", "FORCES_FC2", "disp_fc2.yaml"}
DefaultCellFile == "POSCAR"

\* Calls that exercise cell resolution: every combination of the four cell
\* sources, the three matrices, the yaml file and its content.
CellInputs ==
    {<<[DefaultArgs EXCEPT !.phono3py_yaml = yc[1],
                           !.unitcell_filename = uf,
                           !.supercell_filename = sf,
                           !.unitcell = uc,
                           !.supercell = sc,
                           !.supercell_matrix = sm,
                           !.primitive_matrix = pm,
                           !.phonon_supercell_matrix = psm,
                           !.mesh = m],
       [files |-> fs \cup {"fc3.hdf5", "fc2.hdf5"}, yaml |-> yc[2]]>> :
        yc \in {c \in YamlChoices : c[2].nac_params = None},
        uf \in Opt({"POSCAR-unitcell"}), sf \in Opt({"POSCAR-supercell"}),
        uc \in Opt({"unitcell_arg"}), sc \in Opt({"supercell_arg"}),
        sm \in Opt({"[2,2,2]"}), pm \in Opt({"auto", "pmat_arg"}),
        psm \in Opt({"[4,4,4]"}), m \in Opt({"mesh_arg"}),
        fs \in SUBSET {DefaultCellFile}}

\* Calls that exercise NAC and unit resolution, with the unit cell given.
NacInputs ==
    {<<[DefaultArgs EXCEPT !.phono3py_yaml = yc[1],
                           !.unitcell = "unitcell_arg",
                           !.is_nac = isn,
                           !.nac_params = np,
                           !.born_filename = bf,
                           !.calculator = c,
                           !.factor = f,
                           !.frequency_scale_factor = fsf,
                           !.mesh = m],
       [files |-> fs \cup {"fc3.hdf5", "fc2.hdf5"}, yaml |-> yc[2]]>> :
        yc \in {c \in YamlChoices : c[2].supercell_matrix = None
                                    /\ c[2].phonon_supercell_matrix = None
                                    /\ c[2].primitive_matrix = None},
        isn \in BOOLEAN, np \in Opt({"nac_params_arg"}),
        bf \in Opt({"BORN-file"}), c \in Opt(Calculators),
        f \in OptNum(MaxFactor), fsf \in OptNum(MaxScale),
        m \in Opt({"mesh_arg"}), fs \in SUBSET {"BORN"}}

\* Calls that exercise the force-constant sources of both orders.
FcInputs ==
    {<<[DefaultArgs EXCEPT !.phono3py_yaml = yc[1],
                           !.unitcell = "unitcell_arg",
                           !.is_nac = FALSE,
                           !.fc3_filename = f3,
                           !.forces_fc3_filename = ff3,
                           !.fc2_filename = f2,
                           !.forces_fc2_filename = ff2,
                           !.mesh = m],
       [files |-> fs3 \cup fs2, yaml |-> yc[2]]>> :
        yc \in {c \in YamlChoices : c[2].supercell_matrix = None
                                    /\ c[2].phonon_supercell_matrix = None
                                    /\ c[2].primitive_matrix = None
                                    /\ c[2].nac_params = None},
        f3 \in Opt({"my_fc3.hdf5"}), ff3 \in Opt({"my_FORCES_FC3"}),
        f2 \in Opt({"my_fc2.hdf5"}), ff2 \in Opt({"my_FORCES_FC2"}),
        m \in Opt({"mesh_arg"}),
        fs3 \in SUBSET Fc3Files, fs2 \in SUBSET Fc2Files}

Inputs == CellInputs \cup NacInputs \cup FcInputs

----------------------------------------------------------------------------
(* External collaborators, modelled from their documented contracts.       *)

\* load_helper.get_supercell_matrix: a shape-(3,) matrix is taken as a
\* diagonal 3x3 matrix; a 3x3 matrix is kept.
get_supercell_matrix(m) ==
    CASE m = "[2,2,2]" -> "diag(2,2,2)"
      [] m = "[4,4,4]" -> "diag(4,4,4)"
      [] OTHER -> m

\* What reading a crystal-structure file gives.
read_crystal_structure(filename) == "cell_of:" \o filename

\* load_helper.get_cell_settings: the cell by the priority
\* unitcell_filename > supercell_filename > unitcell > supercell, then the
\* calculator's default file of the current directory; supercell_matrix is
\* ignored for a supercell; the default supercell matrix is the unit
\* matrix; primitive_matrix None is 'auto'.
get_cell_settings(a, files) ==
    LET pm == IF a.primitive_matrix = None THEN "auto"
              ELSE a.primitive_matrix
        sm == IF a.supercell_matrix = None THEN Eye3
              ELSE get_supercell_matrix(a.supercell_matrix)
    IN  CASE a.unitcell_filename # None ->
               [ok |-> TRUE, cell |-> read_crystal_structure(a.unitcell_filename),
                smat |-> sm, pmat |-> pm, read |-> {a.unitcell_filename}]
          [] a.unitcell_filename = None /\ a.supercell_filename # None ->
               [ok |-> TRUE, cell |-> read_crystal_structure(a.supercell_filename),
                smat |-> Eye3, pmat |-> pm, read |-> {a.supercell_filename}]
          [] a.unitcell_filename = None /\ a.supercell_filename = None
             /\ a.unitcell # None ->
               [ok |-> TRUE, cell |-> a.unitcell,
                smat |-> sm, pmat |-> pm, read |-> {}]
          [] a.unitcell_filename = None /\ a.supercell_filename = None
             /\ a.unitcell = None /\ a.supercell # None ->
               [ok |-> TRUE, cell |-> a.supercell,
                smat |-> Eye3, pmat |-> pm, read |-> {}]
          [] OTHER ->
               IF DefaultCellFile \in files
               THEN [ok |-> TRUE, cell |-> read_crystal_structure(DefaultCellFile),
                     smat |-> sm, pmat |-> pm, read |-> {DefaultCellFile}]
               ELSE [ok |-> FALSE, cell |-> Unset, smat |-> Unset,
                     pmat |-> Unset, read |-> {}]

\* phonopy's get_default_physical_units: calculator None is "vasp".
get_default_physical_units(calculator) ==
    IF calculator \in {None, "vasp"}
    THEN [factor |-> {15}, nac_factor |-> {14}]
    ELSE [factor |-> {108}, nac_factor |-> {2}]

\* What parsing a BORN-like file gives.
parse_BORN(filename) == "nac_of:" \o filename

\* load_helper.get_nac_params: nac_params > born_filename > is_nac ('BORN'
\* of the current directory, when it is there).
get_nac_params(nac_params, born_filename, is_nac, files) ==
    CASE nac_params # None -> [nac |-> nac_params, read |-> {}]
      [] nac_params = None /\ born_filename # None ->
           [nac |-> parse_BORN(born_filename), read |-> {born_filename}]
      [] nac_params = None /\ born_filename = None /\ is_nac
         /\ "BORN" \in files ->
           [nac |-> parse_BORN("BORN"), read |-> {"BORN"}]
      [] OTHER -> [nac |-> None, read |-> {}]

\* file_IO.read_fc3_from_hdf5 and read_fc2_from_hdf5.
read_fc3_from_hdf5(filename) == "fc3_of:" \o filename
read_fc2_from_hdf5(filename) == "fc2_of:" \o filename

----------------------------------------------------------------------------
(* The decisions load() and _set_force_constants() take themselves.        *)

\* A slip in the check of lines 193-194: the wrong matrix is tested.
PhononSupercellInvalid_WrongMatrix(a) ==
    /\ a.supercell_matrix # None
    /\ a.unitcell = None
    /\ a.unitcell_filename = None

\* load, lines 193-194: phonon_supercell_matrix without a unit cell.
PhononSupercellInvalid(a) ==
    /\ a.phonon_supercell_matrix # None
    /\ a.unitcell = None
    /\ a.unitcell_filename = None

\* Lines 207-210 without the default of lines 209-210.
YamlSmat_NoDefault(yaml) == yaml.supercell_matrix

\* load, lines 207-210: the yaml file's supercell matrix, else eye(3).
YamlSmat(yaml) ==
    IF yaml.supercell_matrix = None THEN Eye3 ELSE yaml.supercell_matrix

\* load, lines 211-214.
YamlPmat(primitive_matrix, yaml) ==
    IF primitive_matrix = "auto" THEN "auto" ELSE yaml.primitive_matrix

\* Lines 215-218 without the test of is_nac.
YamlNacParams_IgnoresIsNac(is_nac, yaml) == yaml.nac_params

\* load, lines 215-218.
YamlNacParams(is_nac, yaml) ==
    IF is_nac THEN yaml.nac_params ELSE None

\* Lines 222-225 with "if not factor" for "if factor is None".
SelectFactor_Falsy(factor, u) ==
    IF factor \in {NoNum, {0}} THEN u.factor ELSE factor

\* load, lines 222-225.
SelectFactor(factor, u) ==
    IF factor = NoNum THEN u.factor ELSE factor

\* _set_force_constants, lines 268-276: which branch is taken for fc3.
Fc3Branch(a, files) ==
    CASE a.fc3_filename # None -> "fc_filename"
      [] a.fc3_filename = None /\ a.forces_fc3_filename # None ->
           "forces_filename"
      [] a.fc3_filename = None /\ a.forces_fc3_filename = None
         /\ "fc3.hdf5" \in files -> "hdf5"
      [] a.fc3_filename = None /\ a.forces_fc3_filename = None
         /\ "fc3.hdf5" \notin files
         /\ "FORCES_FC3" \in files /\ "disp_fc3.yaml" \in files -> "forces"
      [] OTHER -> "none"

\* _set_force_constants, lines 278-286: which branch is taken for fc2.
Fc2Branch(a, files) ==
    CASE a.fc2_filename # None -> "fc_filename"
      [] a.fc2_filename = None /\ a.forces_fc2_filename # None ->
           "forces_filename"
      [] a.fc2_filename = None /\ a.forces_fc2_filename = None
         /\ "fc2.hdf5" \in files -> "hdf5"
      [] a.fc2_filename = None /\ a.forces_fc2_filename = None
         /\ "fc2.hdf5" \notin files
         /\ "FORCES_FC2" \in files /\ "disp_fc2.yaml" \in files -> "forces"
      [] OTHER -> "none"

\* Line 251 without the test of mesh.
MeshGiven_Always(a) == TRUE

\* load, line 251.
MeshGiven(a) == a.mesh # None

----------------------------------------------------------------------------
(* The call of load().                                                     *)

NoObject ==
    [made |-> FALSE, cell |-> Unset, supercell_matrix |-> Unset,
     primitive_matrix |-> Unset, phonon_supercell_matrix |-> Unset,
     mesh |-> Unset, frequency_factor_to_THz |-> NoNum,
     calculator |-> Unset, fc3 |-> None, fc2 |-> None,
     phph_calls |-> 0, phph_nac_params |-> Unset,
     phph_frequency_scale_factor |-> NoNum]

NoNacCall ==
    [nac_params |-> Unset, born_filename |-> Unset, is_nac |-> FALSE,
     nac_factor |-> NoNum]

NoUnits == [factor |-> NoNum, nac_factor |-> NoNum]

Init ==
    /\ \E in \in Inputs : args = in[1] /\ env = in[2]
    /\ pc = "start"
    /\ cell = Unset /\ smat = Unset /\ pmat = Unset /\ ph_smat = Unset
    /\ nac = Unset
    /\ units = NoUnits
    /\ factor_ = NoNum
    /\ ph3py = NoObject
    /\ nac_call = NoNacCall
    /\ calls = <<>>
    /\ reads = {}
    /\ err = None

\* load, lines 183-192: the cell from the arguments.
CellSettings ==
    /\ pc = "start"
    /\ args.phono3py_yaml = None
    /\ LET r == get_cell_settings(args, env.files)
       IN  /\ cell' = r.cell /\ smat' = r.smat /\ pmat' = r.pmat
           /\ reads' = reads \cup r.read
           /\ pc' = IF r.ok THEN "ph_smat" ELSE "raised"
           /\ err' = IF r.ok THEN None ELSE "RuntimeError"
    /\ calls' = Append(calls, "get_cell_settings")
    /\ UNCHANGED <<args, env, ph_smat, nac, units, factor_, ph3py, nac_call>>

\* load, lines 193-202: the phonon supercell matrix, and _nac_params.
PhononSupercell ==
    /\ pc = "ph_smat"
    /\ IF PhononSupercellInvalid(args)
       THEN /\ pc' = "raised"
            /\ err' = "RuntimeError"
            /\ UNCHANGED <<ph_smat, nac>>
       ELSE /\ ph_smat' = IF args.phonon_supercell_matrix # None
                          THEN get_supercell_matrix(args.phonon_supercell_matrix)
                          ELSE None
            /\ nac' = args.nac_params
            /\ pc' = "units"
            /\ err' = None
    /\ UNCHANGED <<args, env, cell, smat, pmat, units, factor_, ph3py,
                   nac_call, calls, reads>>

\* load, lines 203-218: everything from the yaml file.
ReadYaml ==
    /\ pc = "start"
    /\ args.phono3py_yaml # None
    /\ cell' = env.yaml.unitcell
    /\ smat' = YamlSmat(env.yaml)
    /\ ph_smat' = env.yaml.phonon_supercell_matrix
    /\ pmat' = YamlPmat(args.primitive_matrix, env.yaml)
    /\ nac' = YamlNacParams(args.is_nac, env.yaml)
    /\ calls' = Append(calls, "Phono3pyYaml.read")
    /\ reads' = reads \cup {args.phono3py_yaml}
    /\ pc' = "units"
    /\ UNCHANGED <<args, env, units, factor_, ph3py, nac_call, err>>

\* load, lines 220-225: the units of the calculator, and _factor.
PhysicalUnits ==
    /\ pc = "units"
    /\ units' = get_default_physical_units(args.calculator)
    /\ factor_' = SelectFactor(args.factor, units')
    /\ calls' = Append(calls, "get_default_physical_units")
    /\ pc' = "construct"
    /\ UNCHANGED <<args, env, cell, smat, pmat, ph_smat, nac, ph3py,
                   nac_call, reads, err>>

\* load, lines 227-237: the Phono3py object.
Construct ==
    /\ pc = "construct"
    /\ ph3py' = [NoObject EXCEPT
                    !.made = TRUE,
                    !.cell = cell,
                    !.supercell_matrix = smat,
                    !.primitive_matrix = pmat,
                    !.phonon_supercell_matrix = ph_smat,
                    !.mesh = args.mesh,
                    !.frequency_factor_to_THz = factor_,
                    !.calculator = args.calculator]
    /\ calls' = Append(calls, "Phono3py")
    /\ pc' = "nac"
    /\ UNCHANGED <<args, env, cell, smat, pmat, ph_smat, nac, units,
                   factor_, nac_call, reads, err>>

\* load, lines 238-242: the NAC parameters.
NacParams ==
    /\ pc = "nac"
    /\ nac_call' = [nac_params |-> nac,
                    born_filename |-> args.born_filename,
                    is_nac |-> args.is_nac,
                    nac_factor |-> units.nac_factor]
    /\ LET r == get_nac_params(nac, args.born_filename, args.is_nac,
                               env.files)
       IN  /\ nac' = r.nac
           /\ reads' = reads \cup r.read
    /\ calls' = Append(calls, "get_nac_params")
    /\ pc' = "fc3"
    /\ UNCHANGED <<args, env, cell, smat, pmat, ph_smat, units, factor_,
                   ph3py, err>>

\* _set_force_constants, lines 267-276: fc3.
SetFc3 ==
    /\ pc = "fc3"
    /\ LET b == Fc3Branch(args, env.files)
           f == IF b = "fc_filename" THEN args.fc3_filename ELSE "fc3.hdf5"
       IN  IF b \in {"fc_filename", "hdf5"}
           THEN /\ ph3py' = [ph3py EXCEPT !.fc3 = read_fc3_from_hdf5(f)]
                /\ reads' = reads \cup {f}
                /\ calls' = Append(calls, "fc3=")
           ELSE UNCHANGED <<ph3py, reads, calls>>
    /\ pc' = "fc2"
    /\ UNCHANGED <<args, env, cell, smat, pmat, ph_smat, nac, units,
                   factor_, nac_call, err>>

\* _set_force_constants, lines 278-286: fc2.
SetFc2 ==
    /\ pc = "fc2"
    /\ LET b == Fc2Branch(args, env.files)
           f == IF b = "fc_filename" THEN args.fc2_filename ELSE "fc2.hdf5"
       IN  IF b \in {"fc_filename", "hdf5"}
           THEN /\ ph3py' = [ph3py EXCEPT !.fc2 = read_fc2_from_hdf5(f)]
                /\ reads' = reads \cup {f}
                /\ calls' = Append(calls, "fc2=")
           ELSE UNCHANGED <<ph3py, reads, calls>>
    /\ pc' = "phph"
    /\ UNCHANGED <<args, env, cell, smat, pmat, ph_smat, nac, units,
                   factor_, nac_call, err>>

\* load, lines 251-254: the phonon-phonon interaction, when mesh is given.
SetPhphInteraction ==
    /\ pc = "phph"
    /\ MeshGiven(args)
    /\ ph3py' = [ph3py EXCEPT
                    !.phph_calls = @ + 1,
                    !.phph_nac_params = nac,
                    !.phph_frequency_scale_factor =
                        args.frequency_scale_factor]
    /\ calls' = Append(calls, "set_phph_interaction")
    /\ pc' = "return"
    /\ UNCHANGED <<args, env, cell, smat, pmat, ph_smat, nac, units,
                   factor_, nac_call, reads, err>>

\* load, lines 251 and 256: return ph3py.
Return ==
    /\ pc \in (IF MeshGiven(args) THEN {"return"} ELSE {"phph"})
    /\ pc' = "done"
    /\ UNCHANGED <<args, env, cell, smat, pmat, ph_smat, nac, units,
                   factor_, ph3py, nac_call, calls, reads, err>>

Next ==
    \/ CellSettings
    \/ PhononSupercell
    \/ ReadYaml
    \/ PhysicalUnits
    \/ Construct
    \/ NacParams
    \/ SetFc3
    \/ SetFc2
    \/ SetPhphInteraction
    \/ Return

Spec == Init /\ [][Next]_vars

----------------------------------------------------------------------------
(* Properties.                                                             *)

Constructed == ph3py.made
PhphCalled == ph3py.phph_calls > 0
NacResolved == pc \in {"fc3", "fc2", "phph", "return", "done"}
FcAssigned == pc \in {"phph", "return", "done"}

\* The source the documented priority
\* fcN_filename > forces_fcN_filename > 'fcN.hdf5' > 'FORCES_FCN'
\* selects, or None when there is none.
DocumentedFcSource(fc_filename, forces_filename, hdf5, forces, disp) ==
    CASE fc_filename # None -> fc_filename
      [] fc_filename = None /\ forces_filename # None -> forces_filename
      [] fc_filename = None /\ forces_filename = None
         /\ hdf5 \in env.files -> hdf5
      [] fc_filename = None /\ forces_filename = None
         /\ hdf5 \notin env.files
         /\ forces \in env.files /\ disp \in env.files -> forces
      [] OTHER -> None

\* C1: for each order n, the force constants come from the source chosen by
\* fcN_filename > forces_fcN_filename > 'fcN.hdf5' > 'FORCES_FCN'; no other
\* source of that order is read, and ph3py.fcN holds the chosen source's
\* force constants once _set_force_constants has run.
C1_FcSourcePriority ==
    FcAssigned =>
        LET s3 == DocumentedFcSource(args.fc3_filename,
                                     args.forces_fc3_filename,
                                     "fc3.hdf5", "FORCES_FC3", "disp_fc3.yaml")
            s2 == DocumentedFcSource(args.fc2_filename,
                                     args.forces_fc2_filename,
                                     "fc2.hdf5", "FORCES_FC2", "disp_fc2.yaml")
            all3 == {args.fc3_filename, args.forces_fc3_filename,
                     "fc3.hdf5", "FORCES_FC3"}
            all2 == {args.fc2_filename, args.forces_fc2_filename,
                     "fc2.hdf5", "FORCES_FC2"}
        IN  /\ (reads \cap all3) \subseteq {s3}
            /\ (reads \cap all2) \subseteq {s2}
            /\ s3 # None => ph3py.fc3 = "fc3_of:" \o s3
            /\ s2 # None => ph3py.fc2 = "fc2_of:" \o s2

\* C2: whenever the nac_params argument is given, it is what
\* set_phph_interaction receives, whatever born_filename, is_nac and
\* phono3py_yaml are.
C2_NacParamsArgumentWins ==
    (PhphCalled /\ args.nac_params # None) =>
        ph3py.phph_nac_params = args.nac_params

\* The cell the documented priority
\* unitcell_filename > supercell_filename > unitcell > supercell selects.
DocumentedCell ==
    CASE args.unitcell_filename # None ->
           read_crystal_structure(args.unitcell_filename)
      [] args.unitcell_filename = None /\ args.supercell_filename # None ->
           read_crystal_structure(args.supercell_filename)
      [] args.unitcell_filename = None /\ args.supercell_filename = None
         /\ args.unitcell # None -> args.unitcell
      [] OTHER -> args.supercell

AnyCellSourceGiven ==
    \/ args.unitcell_filename # None
    \/ args.supercell_filename # None
    \/ args.unitcell # None
    \/ args.supercell # None

\* C3: the cell the Phono3py constructor receives is the one of the
\* highest-priority cell source that is given; a given unitcell_filename
\* always determines the cell.
C3_CellPriority ==
    (Constructed /\ AnyCellSourceGiven) => ph3py.cell = DocumentedCell

PhononSupercellWithoutUnitcell ==
    /\ args.phonon_supercell_matrix # None
    /\ args.unitcell = None
    /\ args.unitcell_filename = None

NoObjectWork ==
    /\ ~Constructed
    /\ ~PhphCalled
    /\ reads \cap {"fc3.hdf5", "fc2.hdf5", "FORCES_FC3", "FORCES_FC2"} = {}
    /\ pc \in {"start", "ph_smat", "raised"}
    /\ pc = "raised" => err = "RuntimeError"

\* C4 (as claimed): every call with phonon_supercell_matrix given and both
\* unitcell and unitcell_filename None ends in a RuntimeError, with no
\* Phono3py object constructed, no force-constant file read and
\* set_phph_interaction not called.
C4_PhononSupercellAlwaysRejected ==
    PhononSupercellWithoutUnitcell => NoObjectWork

\* C4 (amended): the same, for the calls in which phono3py_yaml is None.
C4_PhononSupercellRejectedWithoutYaml ==
    (PhononSupercellWithoutUnitcell /\ args.phono3py_yaml = None)
        => NoObjectWork

\* A call rejected by load's own check, after the cell was resolved from a
\* supercell.
C4_Witness ==
    /\ PhononSupercellWithoutUnitcell
    /\ args.phono3py_yaml = None
    /\ args.supercell # None
    /\ cell = args.supercell
    /\ pc = "raised"
    /\ err = "RuntimeError"

\* C5: primitive_matrix None is equivalent to 'auto': a call with
\* primitive_matrix None hands the constructor the primitive matrix that the
\* same call with primitive_matrix 'auto' hands it.
C5_NoneIsAuto ==
    (Constructed /\ args.primitive_matrix = None) =>
        LET a == [args EXCEPT !.primitive_matrix = "auto"]
            withAuto == IF a.phono3py_yaml = None
                        THEN get_cell_settings(a, env.files).pmat
                        ELSE YamlPmat(a.primitive_matrix, env.yaml)
        IN  ph3py.primitive_matrix = withAuto

\* C6: frequency_factor_to_THz is the factor argument whenever it is not
\* None (0 included), else the calculator's default 'factor'; the NAC unit
\* factor given to get_nac_params is always the calculator's 'nac_factor'.
C6_FactorSelection ==
    /\ Constructed =>
          ph3py.frequency_factor_to_THz =
              (IF args.factor # NoNum THEN args.factor
               ELSE get_default_physical_units(args.calculator).factor)
    /\ NacResolved =>
          nac_call.nac_factor =
              get_default_physical_units(args.calculator).nac_factor

\* A call with factor = 0 that has constructed the object and resolved NAC.
C6_Witness ==
    /\ Constructed
    /\ NacResolved
    /\ args.factor = {0}
    /\ ph3py.frequency_factor_to_THz = {0}
    /\ args.calculator = "qe"
    /\ nac_call.nac_factor = {2}

\* C7 (as claimed): with is_nac False, set_phph_interaction receives None,
\* whatever nac_params and born_filename are.
C7_IsNacFalseAlwaysOff ==
    (PhphCalled /\ ~args.is_nac) => ph3py.phph_nac_params = None

\* C7 (amended): with is_nac False and born_filename None,
\* set_phph_interaction receives None whenever nac_params is None or
\* phono3py_yaml is given.
C7_IsNacFalseOffWithoutOtherSources ==
    (PhphCalled /\ ~args.is_nac /\ args.born_filename = None
     /\ (args.nac_params = None \/ args.phono3py_yaml # None))
        => ph3py.phph_nac_params = None

\* is_nac False turns NAC off in a call with phono3py_yaml, although the
\* nac_params argument is given, the yaml file holds NAC parameters and a
\* BORN file is in the current directory.
C7_Witness ==
    /\ PhphCalled
    /\ ~args.is_nac
    /\ args.nac_params # None
    /\ args.born_filename = None
    /\ args.phono3py_yaml # None
    /\ env.yaml.nac_params # None
    /\ "BORN" \in env.files
    /\ ph3py.phph_nac_params = None

\* C8: with phono3py_yaml given, the constructor receives the yaml file's
\* cell, supercell matrix and phonon supercell matrix, get_cell_settings is
\* not called, and the supercell matrix is never None: it is the unit
\* matrix when the yaml file holds none.
C8_YamlDeterminesCell ==
    (Constructed /\ args.phono3py_yaml # None) =>
        /\ ph3py.cell = env.yaml.unitcell
        /\ ph3py.phonon_supercell_matrix = env.yaml.phonon_supercell_matrix
        /\ ph3py.supercell_matrix # None
        /\ env.yaml.supercell_matrix # None =>
              ph3py.supercell_matrix = env.yaml.supercell_matrix
        /\ env.yaml.supercell_matrix = None =>
              ph3py.supercell_matrix = Eye3
        /\ \A i \in 1..Len(calls) : calls[i] # "get_cell_settings"

\* A yaml file without a supercell matrix, with cell arguments given too.
C8_Witness ==
    /\ Constructed
    /\ args.phono3py_yaml # None
    /\ env.yaml.supercell_matrix = None
    /\ args.unitcell_filename # None
    /\ args.supercell_matrix # None
    /\ ph3py.supercell_matrix = Eye3

StepRank(e) ==
    CASE e = "Phono3py" -> 1
      [] e = "get_nac_params" -> 2
      [] e = "fc3=" -> 3
      [] e = "fc2=" -> 4
      [] e = "set_phph_interaction" -> 5
      [] OTHER -> 0

IsStep(e) == StepRank(e) > 0
Steps == SelectSeq(calls, IsStep)
PhphCount == Len(SelectSeq(calls, LAMBDA e : e = "set_phph_interaction"))

\* C9: the steps occur in the order construct, resolve NAC, assign fc3,
\* assign fc2, set_phph_interaction; a call that returns has constructed
\* the object and resolved NAC, and has called set_phph_interaction exactly
\* once if mesh is given and never otherwise, with the NAC parameters
\* get_nac_params returned and the frequency_scale_factor argument.
C9_StepOrder ==
    /\ \A i \in 1..Len(Steps) : \A j \in 1..Len(Steps) :
          i < j => StepRank(Steps[i]) < StepRank(Steps[j])
    /\ PhphCount = ph3py.phph_calls
    /\ args.mesh = None => PhphCount = 0
    /\ PhphCount > 0 => pc \in {"return", "done"}
    /\ pc = "done" =>
          /\ Len(Steps) >= 2
          /\ Steps[1] = "Phono3py"
          /\ Steps[2] = "get_nac_params"
          /\ PhphCount = (IF args.mesh # None THEN 1 ELSE 0)
    /\ PhphCalled =>
          /\ ph3py.phph_nac_params =
                get_nac_params(nac_call.nac_params, nac_call.born_filename,
                               nac_call.is_nac, env.files).nac
          /\ ph3py.phph_frequency_scale_factor =
                args.frequency_scale_factor

\* A returned call that assigned fc3, then fc2, and then set up the
\* interaction with a scale factor and NAC parameters from a BORN-like file.
C9_Witness ==
    /\ pc = "done"
    /\ Steps = <<"Phono3py", "get_nac_params", "fc3=", "fc2=",
                 "set_phph_interaction">>
    /\ args.frequency_scale_factor = {1}
    /\ ph3py.phph_frequency_scale_factor = {1}
    /\ ph3py.phph_nac_params = parse_BORN("BORN-file")

============================================================================
